---- MODULE Spec2Model ----
(***************************************************************************)
(* A model of the API log analyzer (src/src/log_analyzer.py, src/main.py). *)
(*                                                                         *)
(* A parsed JSON value of the input list is a record                       *)
(*   [kind, ip, endpoint, status, response_time_ms, timestamp]             *)
(* where kind is "dict", "scalar" or "list" and every other field is       *)
(* either <<>> (the key is not in the dict) or <<v>> (the key maps to v).  *)
(* ip and endpoint values are strings ("" is the empty string), status     *)
(* and response_time_ms are integers, and a timestamp is a string written  *)
(* as the sequence of its character codes, so that Python's string order   *)
(* is something the model computes rather than assumes.                    *)
(*                                                                         *)
(* Numbers that Python holds as floats are held exactly: a quotient is a   *)
(* record [num, den] (den = 0 stands for the ZeroDivisionError the         *)
(* division raises) and round(x, d) gives the integer x * 10^d rounded     *)
(* half to even. The method of a request, which the analysis only copies   *)
(* into its samples, and the wall-clock analysis_timestamp are left out.   *)
(***************************************************************************)
EXTENDS Integers, Sequences, FiniteSets, TLC

VARIABLES
    logs,       \* the argument of analyze_logs / the list load_logs returned
    outcome,    \* "none" before the call, then "returned" or the exception raised
    report,     \* the dict analyze_logs returned (NoReport until it returns)
    entry,      \* which main() runs: "main_py" or "log_analyzer"
    file,       \* what the input path holds
    pc,         \* position of main()
    outdir,     \* whether the directory output/ exists
    console,    \* what has been printed, oldest first
    written     \* the output files written, oldest first

vars == <<logs, outcome, report, entry, file, pc, outdir, console, written>>

----------------------------------------------------------------------------
(* Bounds of the model *)

MaxLen == 2
MaxStatsLen == 3
MaxStatusLen == 3
RankLen == 12
MaxFileLen == 2

(* Program constants *)

TopIps == 10
TopEndpoints == 5
TopErrorEndpoints == 5
TopSlowest == 5
RecentErrors == 10
ReportIps == 5
ReportErrors == 5

----------------------------------------------------------------------------
(* Python values *)

Absent == <<>>

Scalar == [kind |-> "scalar", ip |-> Absent, endpoint |-> Absent, status |-> Absent,
           response_time_ms |-> Absent, timestamp |-> Absent]

List == [kind |-> "list", ip |-> Absent, endpoint |-> Absent, status |-> Absent,
         response_time_ms |-> Absent, timestamp |-> Absent]

Dict(ip, endpoint, status, rt, ts) ==
    [kind |-> "dict", ip |-> ip, endpoint |-> endpoint, status |-> status,
     response_time_ms |-> rt, timestamp |-> ts]

\* isinstance(log, dict)
IsDict(log) == log.kind = "dict"

\* 'f' in log   (only evaluated on a dict: the code tests isinstance first)
HasIp(log) == log.ip # Absent
HasEndpoint(log) == log.endpoint # Absent
HasStatus(log) == log.status # Absent
HasResponseTime(log) == log.response_time_ms # Absent

\* log.get('timestamp') is truthy: the key is there and its string is not empty
HasTimestamp(log) == log.timestamp # Absent /\ log.timestamp[1] # <<>>

\* log.get(f, default)
GetOr(field, default) == IF field = Absent THEN default ELSE field[1]

Min(a, b) == IF a <= b THEN a ELSE b

\* Python's < on strings: code point by code point, a proper prefix is smaller
RECURSIVE StrLess(_, _)
StrLess(s, t) ==
    IF t = <<>> THEN FALSE
    ELSE IF s = <<>> THEN TRUE
    ELSE IF s[1] # t[1] THEN s[1] < t[1]
    ELSE StrLess(Tail(s), Tail(t))

\* min(...) / max(...) of a non-empty sequence of strings: the first smallest /
\* the first largest
RECURSIVE StrMin(_)
StrMin(ss) ==
    IF Len(ss) = 1 THEN ss[1]
    ELSE LET m == StrMin(SubSeq(ss, 1, Len(ss) - 1))
         IN IF StrLess(ss[Len(ss)], m) THEN ss[Len(ss)] ELSE m

RECURSIVE StrMax(_)
StrMax(ss) ==
    IF Len(ss) = 1 THEN ss[1]
    ELSE LET m == StrMax(SubSeq(ss, 1, Len(ss) - 1))
         IN IF StrLess(m, ss[Len(ss)]) THEN ss[Len(ss)] ELSE m

\* a / b as an exact quotient; den = 0 is the ZeroDivisionError
Quot(a, b) == [num |-> a, den |-> b]
Times100(q) == [num |-> q.num * 100, den |-> q.den]
ZeroQuot == [num |-> 0, den |-> 1]
Raises(q) == q.den = 0

\* round(q, d) as the integer q * 10^d, half to even (scale = 10^d); q >= 0
Round(q, scale) ==
    LET n == q.num * scale
        f == n \div q.den
        r == n % q.den
    IN IF 2 * r < q.den THEN f
       ELSE IF 2 * r > q.den THEN f + 1
       ELSE IF f % 2 = 0 THEN f ELSE f + 1

----------------------------------------------------------------------------
(* Sequences *)

\* [f(x) for x in s] is written [i \in 1..Len(s) |-> f(s[i])] where it is used

\* s[:n]
Take(s, n) == SubSeq(s, 1, Min(n, Len(s)))

\* sorted(s, key=score, reverse=True) on records with a score field: Python's sort is
\* stable, and reverse=True keeps the original order of items that compare equal.
\* An item goes behind every earlier item whose score is at least its own.
\* A sort that is not stable: an item goes ahead of the earlier items of its score
InsertDescUnstable(sorted, x) ==
    LET ahead == {i \in 1..Len(sorted) : sorted[i].score > x.score}
        k == Cardinality(ahead)
    IN SubSeq(sorted, 1, k) \o <<x>> \o SubSeq(sorted, k + 1, Len(sorted))

InsertDesc(sorted, x) ==
    LET ahead == {i \in 1..Len(sorted) : sorted[i].score >= x.score}
        k == Cardinality(ahead)
    IN SubSeq(sorted, 1, k) \o <<x>> \o SubSeq(sorted, k + 1, Len(sorted))

RECURSIVE SortDesc(_)
SortDesc(s) ==
    IF s = <<>> THEN <<>>
    ELSE InsertDesc(SortDesc(SubSeq(s, 1, Len(s) - 1)), s[Len(s)])

\* A counter that counts the first occurrence of a key twice
CounterAddFromTwo(c, k) ==
    IF \E i \in 1..Len(c) : c[i].key = k
    THEN [i \in 1..Len(c) |-> IF c[i].key = k
                              THEN [key |-> k, count |-> c[i].count + 1]
                              ELSE c[i]]
    ELSE Append(c, [key |-> k, count |-> 2])

\* collections.Counter(keys): key -> count, the keys in the order they first occur
CounterAdd(c, k) ==
    IF \E i \in 1..Len(c) : c[i].key = k
    THEN [i \in 1..Len(c) |-> IF c[i].key = k
                              THEN [key |-> k, count |-> c[i].count + 1]
                              ELSE c[i]]
    ELSE Append(c, [key |-> k, count |-> 1])

RECURSIVE Counter(_)
Counter(keys) ==
    IF keys = <<>> THEN <<>>
    ELSE CounterAdd(Counter(SubSeq(keys, 1, Len(keys) - 1)), keys[Len(keys)])

\* counter.most_common(n): heapq.nlargest(n, items, key=count), which is
\* sorted(items, key=count, reverse=True)[:n]
MostCommon(c, n) ==
    LET scored == [i \in 1..Len(c) |-> [score |-> c[i].count, item |-> c[i]]]
        ranked == SortDesc(scored)
    IN Take([i \in 1..Len(ranked) |-> ranked[i].item], n)

\* sum(xs)
RECURSIVE Sum(_)
Sum(xs) == IF xs = <<>> THEN 0 ELSE xs[1] + Sum(Tail(xs))

----------------------------------------------------------------------------
(* load_logs *)

\* What the path can hold: nothing readable, text that is not JSON, or a JSON
\* document that is a number, an object or an array of values
Unreadable == [shape |-> "unreadable", items |-> <<>>]
NotJson == [shape |-> "notjson", items |-> <<>>]
JsonNumber == [shape |-> "number", items |-> <<>>]
JsonObject(keys) == [shape |-> "object", items |-> keys]
JsonArray(items) == [shape |-> "array", items |-> items]

\* open() or json.load() raises, or iterating the loaded value does (a number)
LoadRaises(f) == f.shape \in {"unreadable", "notjson", "number"}

\* Iterating a JSON object yields its keys, which are strings, not dicts
Iterated(f) ==
    IF f.shape = "object" THEN [i \in 1..Len(f.items) |-> Scalar] ELSE f.items

\* load_logs(file_path): [] when anything raised
LoadLogs(f) ==
    IF LoadRaises(f) THEN <<>>
    ELSE SelectSeq(Iterated(f),
                   LAMBDA log : IsDict(log) /\ HasIp(log) /\ HasEndpoint(log))

----------------------------------------------------------------------------
(* analyze_logs *)

ValidLogs(ls) == SelectSeq(ls, LAMBDA log : IsDict(log) /\ HasIp(log))

IpCounter(valid) == Counter([i \in 1..Len(valid) |-> valid[i].ip[1]])

\* An endpoint counter over log.get('endpoint', ''): an entry with no endpoint is
\* counted under the empty endpoint
EndpointCounterDefaulted(valid) ==
    Counter([i \in 1..Len(valid) |-> GetOr(valid[i].endpoint, "")])

EndpointCounter(valid) ==
    LET carrying == SelectSeq(valid, HasEndpoint)
    IN Counter([i \in 1..Len(carrying) |-> carrying[i].endpoint[1]])

Is5xx(log) == HasStatus(log) /\ 500 <= log.status[1] /\ log.status[1] < 600

Errors5xx(valid) == SelectSeq(valid, Is5xx)

ResponseTimes(valid) ==
    LET carrying == SelectSeq(valid, HasResponseTime)
    IN [i \in 1..Len(carrying) |-> carrying[i].response_time_ms[1]]

AvgResponseTime(valid) ==
    LET times == ResponseTimes(valid)
    IN IF times # <<>> THEN Quot(Sum(times), Len(times)) ELSE ZeroQuot

\* The server errors of every endpoint taken for those of one
ServerErrorsOfAny(errors, endpoint) == Len(errors)

\* log.get('endpoint') == endpoint: None, for a missing key, equals no endpoint
ServerErrorsOf(errors, endpoint) ==
    Len(SelectSeq(errors, LAMBDA log : HasEndpoint(log) /\ log.endpoint[1] = endpoint))

ErrorRate(server_errors, total_calls) ==
    IF total_calls > 0 THEN Times100(Quot(server_errors, total_calls)) ELSE ZeroQuot

\* The exact rates, before rounding, in the order of the endpoint counter
EndpointRawRates(valid) ==
    LET ec == EndpointCounter(valid)
    IN [i \in 1..Len(ec) |->
           ErrorRate(ServerErrorsOf(Errors5xx(valid), ec[i].key), ec[i].count)]

EndpointErrorRates(valid) ==
    LET ec == EndpointCounter(valid)
        raw == EndpointRawRates(valid)
    IN [i \in 1..Len(ec) |->
           [endpoint |-> ec[i].key,
            total_requests |-> ec[i].count,
            server_errors_5xx |-> ServerErrorsOf(Errors5xx(valid), ec[i].key),
            error_rate_percent |-> IF Raises(raw[i]) THEN 0 ELSE Round(raw[i], 100)]]

StatusCodeCounter(valid) ==
    LET carrying == SelectSeq(valid, HasStatus)
    IN Counter([i \in 1..Len(carrying) |-> carrying[i].status[1]])

\* A bucket that leaves out the lowest code of its range: lo < code < hi
BucketAboveLow(sc, lo, hi) ==
    LET inside == SelectSeq(sc, LAMBDA e : lo < e.key /\ e.key < hi)
    IN Sum([i \in 1..Len(inside) |-> inside[i].count])

\* sum(count for code, count in status_code_counter.items() if lo <= code < hi)
Bucket(sc, lo, hi) ==
    LET inside == SelectSeq(sc, LAMBDA e : lo <= e.key /\ e.key < hi)
    IN Sum([i \in 1..Len(inside) |-> inside[i].count])

ResponseCodes(sc) ==
    [s2xx_success |-> Bucket(sc, 200, 300),
     s3xx_redirect |-> Bucket(sc, 300, 400),
     s4xx_client_error |-> Bucket(sc, 400, 500),
     s5xx_server_error |-> Bucket(sc, 500, 600)]

\* The overall rate without its guard on total_requests
ServerErrorRateUnguarded(valid) ==
    Times100(Quot(Len(Errors5xx(valid)), Len(valid)))

ServerErrorRate(valid) ==
    LET total_requests == Len(valid)
    IN IF total_requests > 0
       THEN Times100(Quot(Len(Errors5xx(valid)), total_requests))
       ELSE ZeroQuot

ErrorEndpointCounter(valid) ==
    LET carrying == SelectSeq(Errors5xx(valid), HasEndpoint)
    IN Counter([i \in 1..Len(carrying) |-> carrying[i].endpoint[1]])

SlowestRequests(valid) ==
    LET carrying == SelectSeq(valid, LAMBDA log : HasResponseTime(log) /\ HasEndpoint(log))
        scored == [i \in 1..Len(carrying) |->
                      [score |-> carrying[i].response_time_ms[1], item |-> carrying[i]]]
        ranked == SortDesc(scored)
    IN Take([i \in 1..Len(ranked) |-> ranked[i].item], TopSlowest)

\* The timestamps min() and max() range over
Timestamps(valid) ==
    LET carrying == SelectSeq(valid, HasTimestamp)
    IN [i \in 1..Len(carrying) |-> carrying[i].timestamp[1]]

\* (count / total_requests) * 100 of a ranked entry: no guard
Percentage(count, total_requests) == Times100(Quot(count, total_requests))

\* The entries of a ranked list with their percentage of total_requests
WithPercentage(ranked, total_requests) ==
    [i \in 1..Len(ranked) |->
        [key |-> ranked[i].key,
         request_count |-> ranked[i].count,
         percentage |->
             IF Raises(Percentage(ranked[i].count, total_requests)) THEN 0
             ELSE Round(Percentage(ranked[i].count, total_requests), 10)]]

\* The fields of a log copied into recent_5xx_errors
CopiedError(log) ==
    [timestamp |-> GetOr(log.timestamp, <<>>),
     ip |-> GetOr(log.ip, ""),
     endpoint |-> GetOr(log.endpoint, ""),
     status_code |-> GetOr(log.status, 0),
     response_time_ms |-> GetOr(log.response_time_ms, 0)]

\* The fields of a log copied into slowest_requests
Copied(log) ==
    [endpoint |-> GetOr(log.endpoint, ""),
     response_time_ms |-> GetOr(log.response_time_ms, 0),
     status_code |-> GetOr(log.status, 0),
     ip |-> GetOr(log.ip, "")]

\* What the call does: the first exception raised in the order the statements
\* run, or "returned"
AnalyzeOutcome(ls) ==
    LET valid == ValidLogs(ls)
        total_requests == Len(valid)
        raw == EndpointRawRates(valid)
        most_active_ips == MostCommon(IpCounter(valid), TopIps)
        top_endpoints == MostCommon(EndpointCounter(valid), TopEndpoints)
    IN IF Raises(AvgResponseTime(valid)) THEN "ZeroDivisionError"
       ELSE IF \E i \in 1..Len(raw) : Raises(raw[i]) THEN "ZeroDivisionError"
       ELSE IF Raises(ServerErrorRate(valid)) THEN "ZeroDivisionError"
       ELSE IF Timestamps(valid) = <<>> THEN "ValueError"
       ELSE IF \E i \in 1..Len(most_active_ips) :
                   Raises(Percentage(most_active_ips[i].count, total_requests))
            THEN "ZeroDivisionError"
       ELSE IF \E i \in 1..Len(top_endpoints) :
                   Raises(Percentage(top_endpoints[i].count, total_requests))
            THEN "ZeroDivisionError"
       ELSE "returned"

\* The dict analyze_logs returns (analysis_timestamp, the wall clock, left out)
AnalyzeLogs(ls) ==
    LET valid == ValidLogs(ls)
        total_requests == Len(valid)
        top_error_endpoints == MostCommon(ErrorEndpointCounter(valid), TopErrorEndpoints)
        recent == Take(Errors5xx(valid), RecentErrors)
        slowest == SlowestRequests(valid)
    IN [total_logs_analyzed |-> Len(valid),
        start |-> StrMin(Timestamps(valid)),
        end |-> StrMax(Timestamps(valid)),
        most_active_ips |->
            WithPercentage(MostCommon(IpCounter(valid), TopIps), total_requests),
        top_endpoints |->
            WithPercentage(MostCommon(EndpointCounter(valid), TopEndpoints), total_requests),
        server_error_rate_percent |-> Round(ServerErrorRate(valid), 100),
        total_server_errors |-> Len(Errors5xx(valid)),
        response_code_summary |-> ResponseCodes(StatusCodeCounter(valid)),
        detailed_status_codes |-> StatusCodeCounter(valid),
        top_error_endpoints |->
            [i \in 1..Len(top_error_endpoints) |->
                [endpoint |-> top_error_endpoints[i].key,
                 error_count |-> top_error_endpoints[i].count]],
        endpoint_error_rates |-> EndpointErrorRates(valid),
        recent_5xx_errors |-> [i \in 1..Len(recent) |-> CopiedError(recent[i])],
        avg_response_time_ms |-> Round(AvgResponseTime(valid), 100),
        slowest_requests |-> [i \in 1..Len(slowest) |-> Copied(slowest[i])]]

\* The value of report while no dict has been returned
NoReport == <<>>

----------------------------------------------------------------------------
(* format_readable_output and the two main() *)

\* sorted(endpoint_error_rates.items(), key=error_rate_percent, reverse=True),
\* of which the report lists the endpoints with a server error
ListedRates(rates) ==
    LET scored == [i \in 1..Len(rates) |->
                      [score |-> rates[i].error_rate_percent, item |-> rates[i]]]
        ranked == SortDesc(scored)
    IN SelectSeq([i \in 1..Len(ranked) |-> ranked[i].item],
                 LAMBDA data : data.server_errors_5xx > 0)

\* The text of the report, as the values its lines show
FormatReadableOutput(results) ==
    [total_logs_analyzed |-> results.total_logs_analyzed,
     server_error_rate_percent |-> results.server_error_rate_percent,
     avg_response_time_ms |-> results.avg_response_time_ms,
     total_server_errors |-> results.total_server_errors,
     most_active_ips |-> Take(results.most_active_ips, ReportIps),
     top_endpoints |-> results.top_endpoints,
     response_code_summary |-> results.response_code_summary,
     endpoint_error_rates |-> ListedRates(results.endpoint_error_rates),
     slowest_requests |-> results.slowest_requests,
     recent_5xx_errors |-> Take(results.recent_5xx_errors, ReportErrors),
     more_errors |-> IF Len(results.recent_5xx_errors) > ReportErrors
                     THEN Len(results.recent_5xx_errors) - ReportErrors ELSE 0]

Printed(kind, value) == [kind |-> kind, value |-> value]
OutputFile(name, content) == [name |-> name, content |-> content]

Mains == {"main_py", "log_analyzer"}

----------------------------------------------------------------------------
(* Inputs *)

SeqsUpTo(S, n) == UNION {[1..k -> S] : k \in 0..n}

\* Timestamps as strings of character codes: "", "1", "12", "2"
T1 == <<1>>
T12 == <<1, 2>>
T2 == <<2>>

\* Values of a parsed input list: the validity and time-span cases
Records ==
    {Scalar, List} \cup
    {Dict(ip, endpoint, <<500>>, <<100>>, ts) :
        ip \in {Absent, <<"">>, <<"a">>},
        endpoint \in {Absent, <<"">>, <<"/t">>},
        ts \in {Absent, <<(<<>>)>>, <<T1>>, <<T12>>, <<T2>>}}

Inputs == SeqsUpTo(Records, MaxLen)

Files ==
    {Unreadable, NotJson, JsonNumber, JsonObject(<<"ip", "endpoint">>)} \cup
    {JsonArray(items) : items \in SeqsUpTo(Records, MaxFileLen)}

NoFile == [shape |-> "none", items |-> <<>>]

----------------------------------------------------------------------------
(* The state machine *)

\* A caller holds a list of parsed values and is about to pass it to analyze_logs
InitCall(inputs) ==
    /\ logs \in inputs
    /\ outcome = "none"
    /\ report = NoReport
    /\ entry = "api"
    /\ file = NoFile
    /\ pc = "call"
    /\ outdir = FALSE
    /\ console = <<>>
    /\ written = <<>>

\* One of the two main() starts on a path holding some file
InitMain ==
    /\ logs = <<>>
    /\ outcome = "none"
    /\ report = NoReport
    /\ entry \in Mains
    /\ file \in Files
    /\ pc = "start"
    /\ outdir \in BOOLEAN
    /\ console = <<>>
    /\ written = <<>>

Init == InitCall(Inputs) \/ InitMain

\* analyze_logs(logs), called directly
Analyze ==
    /\ pc = "call"
    /\ outcome' = AnalyzeOutcome(logs)
    /\ report' = IF outcome' = "returned" THEN AnalyzeLogs(logs) ELSE NoReport
    /\ pc' = "end"
    /\ UNCHANGED <<logs, entry, file, outdir, console, written>>

\* main: logs = load_logs(file_path), with what is printed on the way
Load ==
    /\ pc = "start"
    /\ logs' = LoadLogs(file)
    /\ console' = console
                  \o (IF entry = "log_analyzer"
                      THEN <<Printed("analyzing", file.shape)>> ELSE <<>>)
                  \o (IF LoadRaises(file)
                      THEN <<Printed("error_loading", file.shape)>> ELSE <<>>)
    /\ pc' = "loaded"
    /\ UNCHANGED <<outcome, report, entry, file, outdir, written>>

\* main: if not logs: print(...); return
NoLogs ==
    /\ pc = "loaded"
    /\ logs = <<>>
    /\ console' = Append(console, Printed("no_valid_logs", 0))
    /\ pc' = "done"
    /\ UNCHANGED <<logs, outcome, report, entry, file, outdir, written>>

\* main: results = analyze_logs(logs); an exception it raises ends the program
MainAnalyze ==
    /\ pc = "loaded"
    /\ logs # <<>>
    /\ outcome' = AnalyzeOutcome(logs)
    /\ report' = IF outcome' = "returned" THEN AnalyzeLogs(logs) ELSE NoReport
    /\ console' = IF entry = "log_analyzer"
                  THEN Append(console, Printed("loaded", Len(logs))) ELSE console
    /\ pc' = IF outcome' # "returned" THEN "crashed"
             ELSE IF entry = "log_analyzer" THEN "mkdir" ELSE "write_json"
    /\ UNCHANGED <<logs, entry, file, outdir, written>>

\* log_analyzer.main: create_output_directory()
CreateOutputDirectory ==
    /\ pc = "mkdir"
    /\ outdir' = TRUE
    /\ pc' = "write_json"
    /\ UNCHANGED <<logs, outcome, report, entry, file, console, written>>

\* main: json.dump(results, f) into output/analysis_results.json; open() raises
\* when output/ is not there
WriteJson ==
    /\ pc = "write_json"
    /\ IF outdir
       THEN /\ written' = Append(written, OutputFile("analysis_results.json", report))
            /\ pc' = IF entry = "log_analyzer" THEN "write_report" ELSE "print_report"
       ELSE /\ written' = written
            /\ pc' = "crashed"
    /\ UNCHANGED <<logs, outcome, report, entry, file, outdir, console>>

\* log_analyzer.main: the text report into output/analysis_report.txt
WriteReport ==
    /\ pc = "write_report"
    /\ written' = Append(written,
                         OutputFile("analysis_report.txt", FormatReadableOutput(report)))
    /\ pc' = "print_report"
    /\ UNCHANGED <<logs, outcome, report, entry, file, outdir, console>>

\* main: print(format_readable_output(results)), then the closing lines
PrintReport ==
    /\ pc = "print_report"
    /\ console' = console \o <<Printed("report", FormatReadableOutput(report)),
                               Printed("complete", Len(written))>>
    /\ pc' = "done"
    /\ UNCHANGED <<logs, outcome, report, entry, file, outdir, written>>

Next ==
    \/ Analyze
    \/ Load
    \/ NoLogs
    \/ MainAnalyze
    \/ CreateOutputDirectory
    \/ WriteJson
    \/ WriteReport
    \/ PrintReport

Spec == Init /\ [][Next]_vars

----------------------------------------------------------------------------
(* Inputs of direct calls of analyze_logs, one family for each concern *)

\* Counting and rates: an ip with two endpoints or none and a 2xx or a 5xx status
\* or none, a second ip with both endpoints and both statuses, beside a record
\* with no ip and a value that is not a dict
StatsRecords ==
    {Scalar, Dict(Absent, <<"/t">>, <<500>>, <<100>>, <<T1>>)} \cup
    {Dict(<<"a">>, endpoint, status, <<100>>, <<T1>>) :
        endpoint \in {Absent, <<"/t">>, <<"/o">>},
        status \in {Absent, <<200>>, <<500>>}} \cup
    {Dict(<<"b">>, endpoint, status, <<300>>, <<T2>>) :
        endpoint \in {<<"/t">>, <<"/o">>},
        status \in {<<200>>, <<500>>}}

StatsInputs == SeqsUpTo(StatsRecords, MaxStatsLen)

\* Status classes: the codes at both ends of every hundred-range, beside codes
\* below 200 and from 600 on, and no status at all
StatusRecords ==
    {Dict(<<"a">>, <<"/t">>, status, <<100>>, <<T1>>) :
        status \in {Absent, <<199>>, <<200>>, <<299>>, <<300>>, <<399>>, <<400>>,
                    <<499>>, <<500>>, <<599>>, <<600>>}}

StatusInputs == SeqsUpTo(StatusRecords, MaxStatusLen)

\* Ranking: a record at an odd position is new in ip, endpoint and latency; one
\* at an even position is new as well, or repeats those of the first record, or
\* those of the record before it. One new record in three is no server error, so
\* that an endpoint may fail for the first time after its first request.
RankRecord(i, choice) ==
    IF choice = "new"
    THEN Dict(<<"ip" \o ToString(i)>>, <<"/e" \o ToString(i)>>,
              <<IF i % 3 = 1 THEN 200 ELSE 500>>, <<100 * i>>, <<T1>>)
    ELSE IF choice = "first"
    THEN Dict(<<"ip1">>, <<"/e1">>, <<IF i % 4 = 0 THEN 200 ELSE 500>>, <<100>>, <<T1>>)
    ELSE Dict(<<"ip" \o ToString(i - 1)>>, <<"/e" \o ToString(i - 1)>>, <<500>>,
              <<100 * (i - 1)>>, <<T1>>)

\* The six requests of test_slowest_requests, with a timestamp each
SlowestScenario ==
    <<Dict(<<"192.168.1.1">>, <<"/api/fast">>, <<200>>, <<100>>, <<T1>>),
      Dict(<<"192.168.1.1">>, <<"/api/slow">>, <<200>>, <<950>>, <<T1>>),
      Dict(<<"192.168.1.2">>, <<"/api/medium">>, <<200>>, <<500>>, <<T1>>),
      Dict(<<"192.168.1.3">>, <<"/api/slower">>, <<200>>, <<800>>, <<T1>>),
      Dict(<<"192.168.1.4">>, <<"/api/slowest">>, <<200>>, <<1000>>, <<T1>>),
      Dict(<<"192.168.1.5">>, <<"/api/quick">>, <<200>>, <<50>>, <<T1>>)>>

RankInputs ==
    {SlowestScenario} \cup
    UNION {{[i \in 1..k |-> RankRecord(i, IF i % 2 = 1 THEN "new" ELSE choice[i \div 2])] :
               choice \in [1..(k \div 2) -> {"new", "first", "previous"}]} :
           k \in 0..RankLen}

SpecStats == InitCall(StatsInputs) /\ [][Analyze]_vars
SpecStatus == InitCall(StatusInputs) /\ [][Analyze]_vars
SpecRank == InitCall(RankInputs) /\ [][Analyze]_vars

----------------------------------------------------------------------------
(* What the claims speak of *)

\* The validity the specification states: a key-value record with a non-empty ip
\* and a non-empty endpoint
StatedValid(log) ==
    /\ IsDict(log)
    /\ HasIp(log) /\ log.ip[1] # ""
    /\ HasEndpoint(log) /\ log.endpoint[1] # ""

Returned == pc = "end" /\ outcome = "returned"

\* The validated entries of a call: the records the analysis retained, which
\* total_logs_analyzed counts, by their positions in the input
Retained == {i \in 1..Len(logs) : IsDict(logs[i]) /\ HasIp(logs[i])}

Range(s) == {s[i] : i \in 1..Len(s)}

JsonWritten == \E w \in Range(written) : w.name = "analysis_results.json"
ReportWritten == \E w \in Range(written) : w.name = "analysis_report.txt"
ReportPrinted == \E c \in Range(console) : c.kind = "report"
Terminated == pc \in {"done", "crashed"}

----------------------------------------------------------------------------
(* C1: the entries the analysis counts are exactly the input records that are *)
(* key-value records with a non-empty ip and a non-empty endpoint, for a list  *)
(* passed to analyze_logs directly and for a list that went through load_logs. *)
C1_CountsExactlyStatedValid ==
    /\ Returned => report.total_logs_analyzed = Len(SelectSeq(logs, StatedValid))
    /\ (entry \in Mains /\ pc # "start")
           => logs = SelectSeq(Iterated(file), StatedValid)

(* C2: on an input with no valid record (the empty list included) analyze_logs *)
(* returns a report whose counts are all 0, whose ranked lists are all empty,  *)
(* and whose mean latency and error rate are 0.                                *)
C2_EmptyInputZeroReport ==
    (pc = "end" /\ SelectSeq(logs, StatedValid) = <<>>) =>
        /\ outcome = "returned"
        /\ report.total_logs_analyzed = 0
        /\ report.total_server_errors = 0
        /\ report.response_code_summary =
               [s2xx_success |-> 0, s3xx_redirect |-> 0,
                s4xx_client_error |-> 0, s5xx_server_error |-> 0]
        /\ report.detailed_status_codes = <<>>
        /\ report.endpoint_error_rates = <<>>
        /\ report.most_active_ips = <<>>
        /\ report.top_endpoints = <<>>
        /\ report.top_error_endpoints = <<>>
        /\ report.slowest_requests = <<>>
        /\ report.recent_5xx_errors = <<>>
        /\ report.avg_response_time_ms = 0
        /\ report.server_error_rate_percent = 0

(* C9: assembling the result always succeeds; start and end are the smallest   *)
(* and the largest, in string order, of the non-empty timestamps of the        *)
(* validated entries, and both are empty when no validated entry has one.      *)
C9_AssemblyAlwaysSucceeds ==
    pc = "end" =>
        LET stamps == {logs[i].timestamp[1] : i \in {j \in Retained : HasTimestamp(logs[j])}}
        IN /\ outcome = "returned"
           /\ stamps = {} => report.start = <<>> /\ report.end = <<>>
           /\ stamps # {} =>
                  /\ report.start \in stamps
                  /\ report.end \in stamps
                  /\ \A t \in stamps : ~StrLess(t, report.start) /\ ~StrLess(report.end, t)

(* C10: a run of main that loaded no valid entry prints a message and ends     *)
(* without analysing or writing a file; any other run writes the JSON result   *)
(* and the text report and then prints the report, never before the writes.    *)
C10_MainWritesThenPrints ==
    entry \in Mains =>
        /\ ReportPrinted => JsonWritten /\ ReportWritten
        /\ (Terminated /\ logs = <<>>) =>
               /\ outcome = "none"
               /\ written = <<>>
               /\ \E c \in Range(console) : c.kind = "no_valid_logs"
        /\ (Terminated /\ logs # <<>>) =>
               JsonWritten /\ ReportWritten /\ ReportPrinted

----------------------------------------------------------------------------
(* Counting over the input, by position, for the claims on the tables *)

WithIp(ip) == {i \in Retained : logs[i].ip[1] = ip}
WithEndpoint(e) == {i \in Retained : HasEndpoint(logs[i]) /\ logs[i].endpoint[1] = e}
WithStatus(code) == {i \in Retained : HasStatus(logs[i]) /\ logs[i].status[1] = code}
StatusIn(codes) == {i \in Retained : HasStatus(logs[i]) /\ logs[i].status[1] \in codes}
ServerErrors == StatusIn(500..599)
EndpointsSeen == {logs[i].endpoint[1] : i \in {j \in Retained : HasEndpoint(logs[j])}}
IpsSeen == {logs[i].ip[1] : i \in Retained}
ErrorEndpointsSeen ==
    {logs[i].endpoint[1] : i \in {j \in ServerErrors : HasEndpoint(logs[j])}}
Timed == {i \in Retained : HasResponseTime(logs[i]) /\ HasEndpoint(logs[i])}

\* r is q = num / den, in 1/scale, rounded to the nearest
Nearest(r, num, den, scale) ==
    /\ 2 * (r * den - num * scale) <= den
    /\ 2 * (num * scale - r * den) <= den

\* The sum of f over a finite set of positions
RECURSIVE SumOver(_, _)
SumOver(S, f) ==
    IF S = {} THEN 0
    ELSE LET x == CHOOSE y \in S : TRUE IN f[x] + SumOver(S \ {x}, f)

Counts(table) == SumOver(1..Len(table), [j \in 1..Len(table) |-> table[j].count])

----------------------------------------------------------------------------
C7_CountsAtMostTotal ==
    Returned =>
        LET total == report.total_logs_analyzed
            r == report
        IN /\ total = Cardinality(Retained)
           /\ \A j \in 1..Len(r.most_active_ips) : r.most_active_ips[j].request_count <= total
           /\ \A j \in 1..Len(r.top_endpoints) : r.top_endpoints[j].request_count <= total
           /\ \A j \in 1..Len(r.top_error_endpoints) :
                  r.top_error_endpoints[j].error_count <= total
           /\ \A j \in 1..Len(r.endpoint_error_rates) :
                  /\ r.endpoint_error_rates[j].total_requests <= total
                  /\ r.endpoint_error_rates[j].server_errors_5xx <= total
           /\ \A j \in 1..Len(r.detailed_status_codes) :
                  r.detailed_status_codes[j].count <= total
           /\ r.response_code_summary.s2xx_success <= total
           /\ r.response_code_summary.s3xx_redirect <= total
           /\ r.response_code_summary.s4xx_client_error <= total
           /\ r.response_code_summary.s5xx_server_error <= total
           /\ r.total_server_errors <= total

\* Counts that reach the total: every validated entry has the same ip and is a
\* server error, and the input holds records that were dropped
C7_Witness ==
    /\ Returned
    /\ report.total_logs_analyzed = 2
    /\ Len(logs) = 3
    /\ report.total_server_errors = 2
    /\ \E j \in 1..Len(report.most_active_ips) : report.most_active_ips[j].request_count = 2

(* C8: every rate of the returned report is between 0 and 100 (the             *)
(* error_rate_percent of every endpoint, server_error_rate_percent, the        *)
(* percentage of every entry of most_active_ips and top_endpoints), and no     *)
(* call divides by zero, a call with no validated entry included.              *)
C8_RatesWithinBounds ==
    /\ pc = "end" => outcome # "ZeroDivisionError"
    /\ Returned =>
           LET r == report
           IN /\ \A j \in 1..Len(r.endpoint_error_rates) :
                     r.endpoint_error_rates[j].error_rate_percent \in 0..10000
              /\ r.server_error_rate_percent \in 0..10000
              /\ \A j \in 1..Len(r.most_active_ips) :
                     r.most_active_ips[j].percentage \in 0..1000
              /\ \A j \in 1..Len(r.top_endpoints) :
                     r.top_endpoints[j].percentage \in 0..1000

\* Rates at both ends and in between: an endpoint failing always, one failing
\* never, and two thirds of the requests failing overall
C8_Witness ==
    /\ Returned
    /\ report.server_error_rate_percent = 6667
    /\ \E j \in 1..Len(report.endpoint_error_rates) :
           report.endpoint_error_rates[j].error_rate_percent = 10000
    /\ \E j \in 1..Len(report.top_endpoints) : report.top_endpoints[j].percentage = 333

----------------------------------------------------------------------------
(* Ranking, stated on the input: a candidate comes before another when its     *)
(* score is higher, or equal and it occurred first                             *)

FirstOf(S) == CHOOSE i \in S : \A j \in S : i <= j

\* c comes before d in the ranking: its score is higher, or it is equal and c
\* occurred first
Before(score, first, c, d) ==
    \/ score[c] > score[d]
    \/ score[c] = score[d] /\ first[c] < first[d]

\* keys is the first min(n, number of candidates) candidates in that order:
\* each listed candidate comes before the next one, and the last one before
\* every candidate left out
IsTopOf(keys, candidates, score, first, n) ==
    /\ Len(keys) = Min(n, Cardinality(candidates))
    /\ \A r \in 1..Len(keys) : keys[r] \in candidates
    /\ \A r \in 1..(Len(keys) - 1) : Before(score, first, keys[r], keys[r + 1])
    /\ \A c \in candidates \ {keys[r] : r \in 1..Len(keys)} :
           Before(score, first, keys[Len(keys)], c)

\* The four ranked lists of the report are the tops of their candidates, two
\* endpoints with as many server errors being ordered by ErrorFirst
RankedLists(ErrorFirst(_)) ==
    LET ips == report.most_active_ips
        eps == report.top_endpoints
        errs == report.top_error_endpoints
        slow == report.slowest_requests
        ipCount == [x \in IpsSeen |-> Cardinality(WithIp(x))]
        ipFirst == [x \in IpsSeen |-> FirstOf(WithIp(x))]
        epCount == [x \in EndpointsSeen |-> Cardinality(WithEndpoint(x))]
        epFirst == [x \in EndpointsSeen |-> FirstOf(WithEndpoint(x))]
        errCount == [x \in ErrorEndpointsSeen |->
                        Cardinality(WithEndpoint(x) \cap ServerErrors)]
        errFirst == [x \in ErrorEndpointsSeen |-> ErrorFirst(x)]
        latency == [i \in Timed |-> logs[i].response_time_ms[1]]
        position == [i \in Timed |-> i]
        \* the entry of rank r: r - 1 entries come before it
        slowAt == [r \in 1..Min(5, Cardinality(Timed)) |->
                      CHOOSE i \in Timed :
                          Cardinality({c \in Timed :
                              Before(latency, position, c, i)}) = r - 1]
    IN /\ IsTopOf([r \in 1..Len(ips) |-> ips[r].key], IpsSeen, ipCount, ipFirst, 10)
       /\ IsTopOf([r \in 1..Len(eps) |-> eps[r].key], EndpointsSeen, epCount, epFirst, 5)
       /\ IsTopOf([r \in 1..Len(errs) |-> errs[r].endpoint], ErrorEndpointsSeen,
                  errCount, errFirst, 5)
       /\ IsTopOf(slowAt, Timed, latency, position, 5)
       /\ slow = [r \in 1..Len(slowAt) |-> Copied(logs[slowAt[r]])]
       /\ \A r \in 1..(Len(ips) - 1) : ips[r].request_count >= ips[r + 1].request_count
       /\ \A r \in 1..(Len(eps) - 1) : eps[r].request_count >= eps[r + 1].request_count
       /\ \A r \in 1..(Len(errs) - 1) : errs[r].error_count >= errs[r + 1].error_count
       /\ \A r \in 1..(Len(slow) - 1) :
              slow[r].response_time_ms >= slow[r + 1].response_time_ms
       /\ logs = SlowestScenario =>
              [r \in 1..Len(slow) |-> slow[r].response_time_ms]
                  = <<1000, 950, 800, 500, 100>>

====
